---- MODULE Spec2Model ----
(***************************************************************************)
(* cobra.core.configuration: the process-wide Configuration singleton.     *)
(*                                                                         *)
(* Python values are modelled as records tagged with their type, so that   *)
(* None, strings, numbers, modules and other objects can be told apart     *)
(* the way isinstance / hasattr tell them apart.  The heap of Configuration*)
(* instances is the sequence objs; a reference is an index into it.        *)
(***************************************************************************)
EXTENDS Integers, Sequences, FiniteSets, TLC

\* ---------------------------------------------------------------- bounds
MaxCores == 3        \* os.cpu_count() returns None or 1..MaxCores
MaxHeap == 2         \* instances a cache-less metaclass may allocate

\* ------------------------------------------------------ program constants
DefaultTolerance == 100      \* 1e-07, in units of 1e-09
DefaultLowerBound == -1000   \* -1000.0
DefaultUpperBound == 1000    \* 1000.0

\* --------------------------------------------------------- Python values
None == [type |-> "NoneType"]
PyStr(s) == [type |-> "str", s |-> s]
PyFloat(v) == [type |-> "float", v |-> v]
PyInt(v) == [type |-> "int", v |-> v]
Module(n, m) == [type |-> "module", name |-> n, hasModel |-> m]
Object(m) == [type |-> "object", hasModel |-> m]

NoException == [type |-> "NoException"]
AssertionError == [type |-> "AssertionError"]

\* Names the solver registry may hold (what optlang can provide), and the
\* interface module the registry maps each name to.
SolverNames == {"gurobi", "cplex", "glpk"}
Interface(n) == Module(n, TRUE)
Registries == {[n \in S |-> Interface(n)] : S \in SUBSET SolverNames}

\* Inputs of the operations.
Callers == {1, 2}
SolverInputs ==
    {PyStr(n) : n \in SolverNames \cup {"bogus"}}
        \cup {None, Object(TRUE), Module("custom", TRUE), Module("custom", FALSE)}
BoundInputs ==
    {None} \cup {PyFloat(v) : v \in {DefaultLowerBound, 0, DefaultUpperBound}}
ToleranceInputs == {DefaultTolerance, 1}
ProcessInputs == {PyInt(0), PyInt(1)}
CpuCounts == {None} \cup {PyInt(v) : v \in 1 .. MaxCores}

VARIABLES
    SOLVERS,      \* cobra.util.solver.solvers: name -> interface module
    objs,         \* heap of Configuration instances
    instances,    \* Singleton._instances[Configuration]: 0 (absent) or a reference
    refs,         \* the reference each caller holds (0: none yet)
    op,           \* the last operation performed and its input
    exc,          \* the exception the last operation raised (NoException if none)
    warnings,     \* number of warnings sent to the logger
    probed        \* solver names tried by _set_default_solver, in order

vars == <<SOLVERS, objs, instances, refs, op, exc, warnings, probed>>

\* ------------------------------------------------------- solver property
\* SolverNotFound carrying the rejected value and ', '.join(SOLVERS).
SolverNotFound(value) ==
    [type |-> "SolverNotFound", value |-> value, names |-> DOMAIN SOLVERS]

\* Configuration.solver (getter)
solver(self) == self._solver

\* Variant of the setter that stores the name instead of looking it up.
SolverSetterStoresName(self, value) ==
    LET not_valid_interface == SolverNotFound(value) IN
    IF value.type = "str" THEN
        IF value.s \notin DOMAIN SOLVERS
        THEN [self |-> self, exc |-> not_valid_interface]
        ELSE [self |-> [self EXCEPT !._solver = value], exc |-> NoException]
    ELSE IF value.type = "module" /\ value.hasModel
    THEN [self |-> [self EXCEPT !._solver = value], exc |-> NoException]
    ELSE [self |-> self, exc |-> not_valid_interface]

\* Variant of the setter that looks names up with a default of None
\* (SOLVERS.get(value)) instead of rejecting unknown ones.
SolverSetterLenientLookup(self, value) ==
    LET not_valid_interface == SolverNotFound(value) IN
    IF value.type = "str" THEN
        IF value.s \notin DOMAIN SOLVERS
        THEN [self |-> [self EXCEPT !._solver = None], exc |-> NoException]
        ELSE [self |-> [self EXCEPT !._solver = SOLVERS[value.s]],
              exc |-> NoException]
    ELSE IF value.type = "module" /\ value.hasModel
    THEN [self |-> [self EXCEPT !._solver = value], exc |-> NoException]
    ELSE [self |-> self, exc |-> not_valid_interface]

\* Variant of the setter without the isinstance(value, types.ModuleType)
\* test: anything with a Model attribute is taken.
SolverSetterDuckTyped(self, value) ==
    LET not_valid_interface == SolverNotFound(value) IN
    IF value.type = "str" THEN
        IF value.s \notin DOMAIN SOLVERS
        THEN [self |-> self, exc |-> not_valid_interface]
        ELSE [self |-> [self EXCEPT !._solver = SOLVERS[value.s]],
              exc |-> NoException]
    ELSE IF value.type \in {"module", "object"} /\ value.hasModel
    THEN [self |-> [self EXCEPT !._solver = value], exc |-> NoException]
    ELSE [self |-> self, exc |-> not_valid_interface]

\* Configuration.solver (setter): the instance afterwards and the exception.
SolverSetter(self, value) ==
    LET not_valid_interface == SolverNotFound(value) IN
    IF value.type = "str" THEN
        IF value.s \notin DOMAIN SOLVERS
        THEN [self |-> self, exc |-> not_valid_interface]
        ELSE [self |-> [self EXCEPT !._solver = SOLVERS[value.s]],
              exc |-> NoException]
    ELSE IF value.type = "module" /\ value.hasModel
    THEN [self |-> [self EXCEPT !._solver = value], exc |-> NoException]
    ELSE [self |-> self, exc |-> not_valid_interface]

\* ------------------------------------------------------- bounds property
\* Configuration.bounds (getter)
bounds(self) == <<self.lower_bound, self.upper_bound>>

\* Variant of the setter without the assertion.
BoundsSetterNoAssert(self, b) ==
    [self |-> [self EXCEPT !.lower_bound = b[1], !.upper_bound = b[2]],
     exc |-> NoException]

\* Variant of the setter that assigns lower_bound before it asserts.
BoundsSetterAssignFirst(self, b) ==
    IF None \notin {b[1], b[2]} /\ ~(b[1].v <= b[2].v)
    THEN [self |-> [self EXCEPT !.lower_bound = b[1]], exc |-> AssertionError]
    ELSE [self |-> [self EXCEPT !.lower_bound = b[1], !.upper_bound = b[2]],
          exc |-> NoException]

\* Variant of the setter that asserts bounds[0] < bounds[1].
BoundsSetterStrict(self, b) ==
    IF None \notin {b[1], b[2]} /\ ~(b[1].v < b[2].v)
    THEN [self |-> self, exc |-> AssertionError]
    ELSE [self |-> [self EXCEPT !.lower_bound = b[1], !.upper_bound = b[2]],
          exc |-> NoException]

\* Configuration.bounds (setter)
BoundsSetter(self, b) ==
    IF None \notin {b[1], b[2]} /\ ~(b[1].v <= b[2].v)
    THEN [self |-> self, exc |-> AssertionError]
    ELSE [self |-> [self EXCEPT !.lower_bound = b[1], !.upper_bound = b[2]],
          exc |-> NoException]

\* ----------------------------------------------------------- construction
PreferredSolvers == <<"gurobi", "cplex", "glpk">>

\* Variant of the loop without the break: every candidate is tried.
RECURSIVE SetDefaultSolverNoBreak(_, _, _)
SetDefaultSolverNoBreak(self, tried, i) ==
    IF i > Len(PreferredSolvers) THEN [self |-> self, probed |-> tried]
    ELSE LET name == PreferredSolvers[i]
             r == SolverSetter(self, PyStr(name))
         IN SetDefaultSolverNoBreak(r.self, Append(tried, name), i + 1)

\* Configuration._set_default_solver: the loop from candidate i on.
RECURSIVE SetDefaultSolverFrom(_, _, _)
SetDefaultSolverFrom(self, tried, i) ==
    IF i > Len(PreferredSolvers) THEN [self |-> self, probed |-> tried]
    ELSE LET name == PreferredSolvers[i]
             r == SolverSetter(self, PyStr(name))
         IN IF r.exc.type = "SolverNotFound"
            THEN SetDefaultSolverFrom(r.self, Append(tried, name), i + 1)
            ELSE [self |-> r.self, probed |-> Append(tried, name)]

SetDefaultSolver(self) == SetDefaultSolverFrom(self, <<>>, 1)

\* Variant that reserves a core whenever there is at least one.
SetDefaultProcessesOffByOne(self, cpu) ==
    LET warned == (cpu = None)
        p1 == IF warned THEN PyInt(1) ELSE cpu
        p2 == IF p1.v >= 1 THEN PyInt(p1.v - 1) ELSE p1
    IN [self |-> [self EXCEPT !.processes = p2],
        warned |-> IF warned THEN 1 ELSE 0]

\* Variant that never reserves a core.
SetDefaultProcessesAllCores(self, cpu) ==
    LET warned == (cpu = None)
        p1 == IF warned THEN PyInt(1) ELSE cpu
    IN [self |-> [self EXCEPT !.processes = p1],
        warned |-> IF warned THEN 1 ELSE 0]

\* Configuration._set_default_processes, given what cpu_count() returned.
SetDefaultProcesses(self, cpu) ==
    LET warned == (cpu = None)
        p1 == IF warned THEN PyInt(1) ELSE cpu
        p2 == IF p1.v > 1 THEN PyInt(p1.v - 1) ELSE p1
    IN [self |-> [self EXCEPT !.processes = p2],
        warned |-> IF warned THEN 1 ELSE 0]

\* Configuration.__init__: the new instance, the exception that escapes (if
\* any), the candidates probed and the warnings logged.
ConfigurationInit(cpu) ==
    LET s0 == [_solver |-> None, tolerance |-> DefaultTolerance,
               lower_bound |-> None, upper_bound |-> None, processes |-> None]
        b == BoundsSetter(s0, <<PyFloat(DefaultLowerBound), PyFloat(DefaultUpperBound)>>)
        s == SetDefaultSolver(b.self)
        p == SetDefaultProcesses(s.self, cpu)
    IN IF b.exc # NoException
       THEN [self |-> b.self, exc |-> b.exc, probed |-> <<>>, warned |-> 0]
       ELSE [self |-> p.self, exc |-> NoException, probed |-> s.probed,
             warned |-> p.warned]

\* ------------------------------------------------------------- operations
Init ==
    /\ SOLVERS \in Registries
    /\ objs = <<>>
    /\ instances = 0
    /\ refs = [c \in Callers |-> 0]
    /\ op = [name |-> "start", arg |-> None]
    /\ exc = NoException
    /\ warnings = 0
    /\ probed = <<>>

\* Singleton.__call__ for Configuration(): the first call constructs and
\* caches the instance, every later call returns the cached one.
SingletonCall(c, cpu) ==
    IF instances = 0
    THEN LET r == ConfigurationInit(cpu)
             new == Len(objs) + 1
         IN /\ op' = [name |-> "Configuration", arg |-> [created |-> TRUE, cpu |-> cpu]]
            /\ exc' = r.exc
            /\ warnings' = warnings + r.warned
            /\ probed' = r.probed
            /\ IF r.exc = NoException
               THEN /\ objs' = Append(objs, r.self)
                    /\ instances' = new
                    /\ refs' = [refs EXCEPT ![c] = new]
               ELSE UNCHANGED <<objs, instances, refs>>
            /\ UNCHANGED SOLVERS
    ELSE /\ op' = [name |-> "Configuration", arg |-> [created |-> FALSE, cpu |-> None]]
         /\ exc' = NoException
         /\ refs' = [refs EXCEPT ![c] = instances]
         /\ UNCHANGED <<SOLVERS, objs, instances, warnings, probed>>

\* Calling a class that has no Singleton metaclass: type.__call__ builds a
\* new instance every time.
PlainCall(c, cpu) ==
    LET r == ConfigurationInit(cpu)
        new == Len(objs) + 1
    IN /\ Len(objs) < MaxHeap
       /\ op' = [name |-> "Configuration", arg |-> [created |-> TRUE, cpu |-> cpu]]
       /\ exc' = r.exc
       /\ warnings' = warnings + r.warned
       /\ probed' = r.probed
       /\ objs' = Append(objs, r.self)
       /\ instances' = new
       /\ refs' = [refs EXCEPT ![c] = new]
       /\ UNCHANGED SOLVERS

\* Calling Configuration, declared with metaclass=Singleton.
ConfigurationCall(c, cpu) == SingletonCall(c, cpu)

\* ref = Configuration()
Construct(c) == \E cpu \in CpuCounts : ConfigurationCall(c, cpu)

\* ref.solver = value
SetSolver(c) ==
    /\ refs[c] # 0
    /\ \E value \in SolverInputs :
         LET r == SolverSetter(objs[refs[c]], value) IN
         /\ objs' = [objs EXCEPT ![refs[c]] = r.self]
         /\ exc' = r.exc
         /\ op' = [name |-> "set_solver", arg |-> value]
    /\ UNCHANGED <<SOLVERS, instances, refs, warnings, probed>>

\* ref.bounds = lo, hi
SetBounds(c) ==
    /\ refs[c] # 0
    /\ \E lo \in BoundInputs, hi \in BoundInputs :
         LET r == BoundsSetter(objs[refs[c]], <<lo, hi>>) IN
         /\ objs' = [objs EXCEPT ![refs[c]] = r.self]
         /\ exc' = r.exc
         /\ op' = [name |-> "set_bounds", arg |-> <<lo, hi>>]
    /\ UNCHANGED <<SOLVERS, instances, refs, warnings, probed>>

\* ref.lower_bound = v  (a plain attribute: nothing is validated)
SetLowerBound(c) ==
    /\ refs[c] # 0
    /\ \E v \in BoundInputs :
         /\ objs' = [objs EXCEPT ![refs[c]].lower_bound = v]
         /\ op' = [name |-> "set_lower_bound", arg |-> v]
    /\ exc' = NoException
    /\ UNCHANGED <<SOLVERS, instances, refs, warnings, probed>>

\* ref.upper_bound = v  (a plain attribute: nothing is validated)
SetUpperBound(c) ==
    /\ refs[c] # 0
    /\ \E v \in BoundInputs :
         /\ objs' = [objs EXCEPT ![refs[c]].upper_bound = v]
         /\ op' = [name |-> "set_upper_bound", arg |-> v]
    /\ exc' = NoException
    /\ UNCHANGED <<SOLVERS, instances, refs, warnings, probed>>

\* ref.tolerance = t  (a plain attribute)
SetTolerance(c) ==
    /\ refs[c] # 0
    /\ \E t \in ToleranceInputs :
         /\ objs' = [objs EXCEPT ![refs[c]].tolerance = t]
         /\ op' = [name |-> "set_tolerance", arg |-> PyFloat(t)]
    /\ exc' = NoException
    /\ UNCHANGED <<SOLVERS, instances, refs, warnings, probed>>

\* ref.processes = n  (a plain attribute: nothing is validated)
SetProcesses(c) ==
    /\ refs[c] # 0
    /\ \E n \in ProcessInputs :
         /\ objs' = [objs EXCEPT ![refs[c]].processes = n]
         /\ op' = [name |-> "set_processes", arg |-> n]
    /\ exc' = NoException
    /\ UNCHANGED <<SOLVERS, instances, refs, warnings, probed>>

Next ==
    \E c \in Callers :
        \/ Construct(c)
        \/ SetSolver(c)
        \/ SetBounds(c)
        \/ SetLowerBound(c)
        \/ SetUpperBound(c)
        \/ SetTolerance(c)
        \/ SetProcesses(c)

Spec == Init /\ [][Next]_vars

\* The instance the singleton caches (meaningful once instances # 0).
Constructed == instances # 0
Cfg == objs[instances]

\* The shape of the state: the attributes __init__ creates on an instance.
Solvers == {None, Module("custom", TRUE)} \cup {Interface(n) : n \in SolverNames}
Configurations ==
    [_solver : Solvers, tolerance : ToleranceInputs,
     lower_bound : BoundInputs, upper_bound : BoundInputs,
     processes : {PyInt(v) : v \in 0 .. MaxCores}]
TypeOK ==
    /\ SOLVERS \in Registries
    /\ objs \in Seq(Configurations)
    /\ instances \in 0 .. Len(objs)
    /\ refs \in [Callers -> 0 .. Len(objs)]
    /\ exc.type \in {"NoException", "AssertionError", "SolverNotFound"}
    /\ warnings \in 0 .. 1
    /\ Len(probed) <= Len(PreferredSolvers)

\* ------------------------------------------------------------- properties
BothSet(b) == None \notin {b[1], b[2]}
Ordered(self) ==
    BothSet(bounds(self)) => self.lower_bound.v <= self.upper_bound.v
AllOrdered == \A i \in 1 .. Len(objs) : Ordered(objs[i])
AllPositive == \A i \in 1 .. Len(objs) : objs[i].processes.v >= 1
Created == op.name = "Configuration" /\ op.arg.created

\* C1 (as stated): in every state reachable by any sequence of public
\* operations, direct assignment of lower_bound and upper_bound included,
\* lower_bound <= upper_bound whenever both are non-null.
C1_BoundsAlwaysOrdered == Constructed => Ordered(Cfg)

\* C1 (amended): construction establishes lower_bound <= upper_bound (both
\* non-null) and every operation other than a direct assignment of
\* lower_bound or upper_bound preserves it; the direct assignments are not
\* validated.
C1_OrderedUnlessAssignedDirectly ==
    [][(op'.name \notin {"set_lower_bound", "set_upper_bound"} /\ AllOrdered)
          => AllOrdered']_vars

C1_Witness ==
    /\ Constructed
    /\ op.name = "set_bounds"
    /\ op.arg = <<PyFloat(0), PyFloat(DefaultLowerBound)>>
    /\ exc = AssertionError
    /\ bounds(Cfg) = <<PyFloat(DefaultLowerBound), PyFloat(0)>>

\* C2: a bounds assignment (lo, hi) with both non-null and lo > hi fails and
\* leaves lower_bound and upper_bound (and the rest of the instance) as they
\* were, whatever the prior state.
C2_RejectedBoundsChangeNothing ==
    [][(op'.name = "set_bounds" /\ BothSet(op'.arg)
            /\ op'.arg[1].v > op'.arg[2].v)
          => (exc' = AssertionError /\ objs' = objs)]_vars

C2_Witness ==
    /\ Constructed
    /\ op.name = "set_bounds"
    /\ BothSet(op.arg)
    /\ op.arg[1].v > op.arg[2].v
    /\ exc = AssertionError
    /\ bounds(Cfg) = <<None, PyFloat(0)>>

\* C3: a bounds assignment (lo, hi) with lo <= hi, or with a null element,
\* succeeds; afterwards the bounds getter returns exactly (lo, hi) and
\* lower_bound = lo, upper_bound = hi.
C3_AcceptedBoundsAreStored ==
    (op.name = "set_bounds"
        /\ (~BothSet(op.arg) \/ op.arg[1].v <= op.arg[2].v))
      => /\ exc = NoException
         /\ bounds(Cfg) = op.arg
         /\ Cfg.lower_bound = op.arg[1]
         /\ Cfg.upper_bound = op.arg[2]

C3_Witness ==
    /\ Constructed
    /\ op.name = "set_bounds"
    /\ op.arg = <<PyFloat(0), PyFloat(0)>>
    /\ exc = NoException
    /\ bounds(Cfg) = <<PyFloat(0), PyFloat(0)>>

\* C4: assigning a registry key n to solver succeeds and the getter then
\* returns the interface the registry maps n to, whatever was stored before.
C4_RegisteredNameResolves ==
    (op.name = "set_solver" /\ op.arg.type = "str"
        /\ op.arg.s \in DOMAIN SOLVERS)
      => (exc = NoException /\ solver(Cfg) = SOLVERS[op.arg.s])

C4_Witness ==
    /\ Constructed
    /\ "gurobi" \in DOMAIN SOLVERS
    /\ op = [name |-> "set_solver", arg |-> PyStr("glpk")]
    /\ exc = NoException
    /\ solver(Cfg) = Module("glpk", TRUE)

\* C5: assigning to solver a string that is no registry key fails with
\* SolverNotFound, whose message lists every registry name, and the stored
\* solver (indeed the whole instance) is left unchanged.
C5_UnknownNameRejected ==
    [][(op'.name = "set_solver" /\ op'.arg.type = "str"
            /\ op'.arg.s \notin DOMAIN SOLVERS)
          => /\ exc'.type = "SolverNotFound"
             /\ exc'.value = op'.arg
             /\ exc'.names = DOMAIN SOLVERS
             /\ objs' = objs]_vars

C5_Witness ==
    /\ Constructed
    /\ op = [name |-> "set_solver", arg |-> PyStr("bogus")]
    /\ exc.type = "SolverNotFound"
    /\ exc.names = {"cplex", "glpk"}
    /\ solver(Cfg) = Module("cplex", TRUE)

IsRegistryName(value) == value.type = "str" /\ value.s \in DOMAIN SOLVERS
ExposesModel(value) == value.type \in {"module", "object"} /\ value.hasModel
IsModuleWithModel(value) == value.type = "module" /\ value.hasModel

\* C6 (as stated): the solver setter accepts exactly a registry key or an
\* object exposing a Model capability (stored as-is), and rejects every
\* other input with SolverNotFound.
C6_AcceptsAnyObjectWithModel ==
    op.name = "set_solver"
      => /\ (exc = NoException)
               <=> (IsRegistryName(op.arg) \/ ExposesModel(op.arg))
         /\ (exc # NoException) => exc.type = "SolverNotFound"
         /\ ExposesModel(op.arg) => solver(Cfg) = op.arg

\* C6 (amended): the solver setter accepts exactly a registry key or a
\* module object that has a Model attribute (stored as-is), and rejects
\* every other input, an object with a Model attribute that is not a module
\* included, with SolverNotFound.
C6_AcceptsNameOrModuleWithModel ==
    op.name = "set_solver"
      => /\ (exc = NoException)
               <=> (IsRegistryName(op.arg) \/ IsModuleWithModel(op.arg))
         /\ (exc # NoException) => exc.type = "SolverNotFound"
         /\ IsModuleWithModel(op.arg) => solver(Cfg) = op.arg

C6_Witness ==
    /\ Constructed
    /\ op = [name |-> "set_solver", arg |-> Module("custom", TRUE)]
    /\ exc = NoException
    /\ solver(Cfg) = Module("custom", TRUE)

\* C7: all Configuration() calls return the same instance (so a mutation
\* through one reference is seen through the other), and a call made once
\* the instance exists returns it without touching its settings.
C7_SingleSharedInstance ==
    [][/\ \A c1, c2 \in Callers :
              (refs'[c1] # 0 /\ refs'[c2] # 0) => refs'[c1] = refs'[c2]
       /\ Len(objs') <= 1
       /\ (op'.name = "Configuration" /\ instances # 0)
            => (objs' = objs /\ instances' = instances
                  /\ \E c \in Callers : refs' = [refs EXCEPT ![c] = instances])
      ]_vars

C7_Witness ==
    /\ op.name = "Configuration"
    /\ ~op.arg.created
    /\ refs[1] # 0
    /\ refs[1] = refs[2]
    /\ objs[refs[2]].tolerance # DefaultTolerance
    /\ bounds(objs[refs[2]]) = <<None, PyFloat(0)>>

\* C8 (as stated): processes >= 1 in every state reachable after
\* construction, direct assignment of processes included.
C8_ProcessesAlwaysPositive == Constructed => Cfg.processes.v >= 1

\* C8 (amended): construction leaves processes >= 1 for every outcome of
\* core-count detection, and every operation other than a direct assignment
\* of processes preserves it; the direct assignment is not validated.
C8_PositiveUnlessAssignedDirectly ==
    [][(op'.name # "set_processes" /\ AllPositive) => AllPositive']_vars

C8_Witness ==
    /\ Constructed
    /\ op = [name |-> "Configuration",
             arg |-> [created |-> TRUE, cpu |-> PyInt(1)]]
    /\ Cfg.processes = PyInt(1)

\* C9: right after construction processes is N - 1 when N > 1 cores were
\* detected and 1 when N = 1 or detection failed; a failed detection logs a
\* warning and raises nothing.
C9_DefaultProcesses ==
    Created
      => /\ exc = NoException
         /\ Constructed
         /\ IF op.arg.cpu = None
            THEN Cfg.processes = PyInt(1) /\ warnings = 1
            ELSE /\ warnings = 0
                 /\ Cfg.processes =
                      IF op.arg.cpu.v > 1 THEN PyInt(op.arg.cpu.v - 1)
                      ELSE PyInt(1)

C9_Witness ==
    /\ Created
    /\ Constructed
    /\ op.arg.cpu = None
    /\ warnings = 1
    /\ Cfg.processes = PyInt(1)

\* C10: construction probes gurobi, cplex, glpk in that order and stops at
\* the first that resolves, storing its interface; SolverNotFound never
\* escapes; when none resolves construction completes with solver unset.
C10_FirstPreferredSolver ==
    Created
      => /\ exc = NoException
         /\ Constructed
         /\ IF "gurobi" \in DOMAIN SOLVERS
            THEN probed = <<"gurobi">> /\ solver(Cfg) = SOLVERS["gurobi"]
            ELSE IF "cplex" \in DOMAIN SOLVERS
            THEN /\ probed = <<"gurobi", "cplex">>
                 /\ solver(Cfg) = SOLVERS["cplex"]
            ELSE IF "glpk" \in DOMAIN SOLVERS
            THEN /\ probed = <<"gurobi", "cplex", "glpk">>
                 /\ solver(Cfg) = SOLVERS["glpk"]
            ELSE /\ probed = <<"gurobi", "cplex", "glpk">>
                 /\ solver(Cfg) = None

C10_Witness ==
    /\ Created
    /\ Constructed
    /\ DOMAIN SOLVERS = {"cplex", "glpk"}
    /\ probed = <<"gurobi", "cplex">>
    /\ solver(Cfg) = Module("cplex", TRUE)

====
